---- MODULE Spec2Model ----
(***************************************************************************)
(* Model of the document ingestion and retrieval core of pranay.ai:        *)
(* scripts/retriever.py (the chunker, Retriever.ingest, _add_batch and     *)
(* Retriever.search) and its command-line driver scripts/ingest.py, over a *)
(* model of the chromadb collection and of the embedding model they call;  *)
(* and of the chats and messages of app.py over its SQLite tables.         *)
(***************************************************************************)
EXTENDS Integers, Sequences, FiniteSets, TLC

(***************************************************************************)
(* Text.  A text is a sequence of tokens.  A token is a run of characters  *)
(* cut out of a named word, [w, from, len]: the len characters of word w   *)
(* that start at offset from; a token whose w is " " is a run of           *)
(* whitespace.  Two tokens are the same string exactly when they are the   *)
(* same cut of the same word, so a word cut in the middle differs from the *)
(* whole word.                                                             *)
(***************************************************************************)
W(name, n) == [w |-> name, from |-> 0, len |-> n]

WS(n) == [w |-> " ", from |-> 0, len |-> n]

IsSpace(tok) == tok.w = " "

\* str.split(): the whitespace-delimited words of a text, in order.
Split(text) == SelectSeq(text, LAMBDA tok : ~IsSpace(tok))

\* The text is the empty string.
IsEmptyString(text) == text = <<>>

\* str.strip() leaves the empty string: the text holds no word.
IsBlank(text) == Split(text) = <<>>

RECURSIVE SumLen(_)
\* sum(len(x)+1 for x in words)
SumLen(words) ==
    IF words = <<>> THEN 0
    ELSE Head(words).len + 1 + SumLen(Tail(words))

\* len(" ".join(words))
JoinedLen(words) == IF words = <<>> THEN 0 ELSE SumLen(words) - 1

Front(s) == SubSeq(s, 1, Len(s) - 1)

Last(s) == s[Len(s)]

RECURSIVE TailWords(_, _)
\* (" ".join(words))[-n:].split() for n > 0: the words of the last n
\* characters of the joined string; the first of them may be the end of a
\* word that the cut falls into.
TailWords(words, n) ==
    IF words = <<>> \/ n <= 0 THEN <<>>
    ELSE LET w == Last(words)
         IN  IF w.len >= n
             THEN << [w |-> w.w, from |-> w.from + w.len - n, len |-> n] >>
             ELSE Append(TailWords(Front(words), n - w.len - 1), w)

\* (" ".join(current))[-overlap:].split(); in Python s[-0:] is all of s.
Back(current, overlap) ==
    IF overlap = 0 THEN current ELSE TailWords(current, overlap)

RECURSIVE ChunkLoop(_, _, _, _, _)
\* The for loop of _chunk_text from word i on; st = [chunks, current, length].
ChunkLoop(words, i, st, max_chars, overlap) ==
    IF i > Len(words) THEN st
    ELSE LET w == words[i]
             flushed ==
                 IF st.length + w.len + 1 > max_chars
                 THEN LET back == Back(st.current, overlap)
                      IN  [chunks  |-> Append(st.chunks, st.current),
                           current |-> back,
                           length  |-> SumLen(back)]
                 ELSE st
         IN  ChunkLoop(words, i + 1,
                       [chunks  |-> flushed.chunks,
                        current |-> Append(flushed.current, w),
                        length  |-> flushed.length + w.len + 1],
                       max_chars, overlap)

\* The chunker without its last line: every join is returned, empty or not.
chunk_text_keeping_empty(text, max_chars, overlap) ==
    LET st == ChunkLoop(Split(text), 1,
                        [chunks |-> <<>>, current |-> <<>>, length |-> 0],
                        max_chars, overlap)
    IN  IF st.current # <<>> THEN Append(st.chunks, st.current) ELSE st.chunks

\* _chunk_text(text, max_chars, overlap).  A chunk is the sequence of words
\* that " ".join wrote; the final comprehension drops the chunks that strip
\* to nothing (an empty join) and leaves the single-spaced others as they are.
chunk_text(text, max_chars, overlap) ==
    LET st  == ChunkLoop(Split(text), 1,
                         [chunks |-> <<>>, current |-> <<>>, length |-> 0],
                         max_chars, overlap)
        all == IF st.current # <<>> THEN Append(st.chunks, st.current)
               ELSE st.chunks
    IN  SelectSeq(all, LAMBDA c : c # <<>>)

\* The defaults of _chunk_text, which ingest relies on.
MAX_CHARS == 1200

OVERLAP == 150


(***************************************************************************)
(* Paths and files.  A path is [dir, stem, ext]; a file is what a read of  *)
(* it finds: whether it can be read at all, and its pages of text (a text  *)
(* file is one page: its whole content).                                   *)
(***************************************************************************)
P(dir, stem, ext) == [dir |-> dir, stem |-> stem, ext |-> ext]

\* os.path.basename(path): the file name without its directory.
basename(path) == [stem |-> path.stem, ext |-> path.ext]

\* path.lower(), as far as the extension tests see it.
Lower(ext) ==
    CASE ext = "TXT" -> "txt"
      [] ext = "PDF" -> "pdf"
      [] ext = "MD"  -> "md"
      [] OTHER       -> ext

IsPdf(path) == Lower(path.ext) = "pdf"

IsText(path) == Lower(path.ext) \in {"txt", "md", "markdown"}

RECURSIVE JoinPages(_)
\* "\n".join(pages)
JoinPages(pages) ==
    IF pages = <<>> THEN <<>>
    ELSE IF Len(pages) = 1 THEN pages[1]
    ELSE pages[1] \o <<WS(1)>> \o JoinPages(Tail(pages))

\* _read_pdf(path): the text of every page, joined by newlines.
read_pdf(file) == JoinPages(file.pages)

\* _read_text_file(path): the whole content.
read_text_file(file) == file.pages[1]

(***************************************************************************)
(* The chromadb collection: a function from chunk ids to the stored        *)
(* document, embedding and metadata.  An id is the pair that               *)
(* f"{basename}-{i}" formats; the format is one-to-one on the names ingest *)
(* accepts, which all end in an extension and so never in "-<digits>".     *)
(***************************************************************************)
\* The id made of the ordinal alone.
ChunkIdOrdinalOnly(path, i) == [name |-> [stem |-> "", ext |-> ""], n |-> i]

ChunkId(path, i) == [name |-> basename(path), n |-> i]

Meta(path) == [source |-> basename(path)]

\* The embedding model: one vector per text, a function of the text alone.
Emb(text) == [of |-> text]

\* Retriever._embed(texts)
embed(texts) == [i \in 1..Len(texts) |-> Emb(texts[i])]

EmptyCollection == [id \in {} |-> [document |-> <<>>, embedding |-> Emb(<<>>),
                                   metadata |-> [source |-> [stem |-> "", ext |-> ""]]]]

Range(s) == {s[i] : i \in 1..Len(s)}

HasDuplicates(s) == \E i, j \in 1..Len(s) : i # j /\ s[i] = s[j]

FirstIndex(s, v) == CHOOSE i \in 1..Len(s) : s[i] = v /\ \A j \in 1..(i - 1) : s[j] # v

\* A collection whose add replaces the record of an id it already holds.
CollectionUpsert(coll, ids, embeddings, docs, metas) ==
    [id \in (DOMAIN coll) \cup Range(ids) |->
        IF id \in Range(ids)
        THEN LET k == FirstIndex(ids, id)
             IN  [document |-> docs[k], embedding |-> embeddings[k],
                  metadata |-> metas[k]]
        ELSE coll[id]]

\* collection.add(ids, embeddings, documents, metadatas) once the ids are
\* validated: a record whose id the collection already holds is ignored, the
\* others are inserted.
CollectionAdd(coll, ids, embeddings, docs, metas) ==
    [id \in (DOMAIN coll) \cup Range(ids) |->
        IF id \in DOMAIN coll THEN coll[id]
        ELSE LET k == FirstIndex(ids, id)
             IN  [document |-> docs[k], embedding |-> embeddings[k],
                  metadata |-> metas[k]]]

(***************************************************************************)
(* Retriever.ingest.  A call's local state: the paths and the files read   *)
(* at them, the position of the two loops (pi: the path; open: its file    *)
(* has been read and chunked into chunks; ci: the ordinal of its next      *)
(* chunk), the three buffers, and where the call stands: "loop", "flush"   *)
(* (line 69, about to call _add_batch), "final" (line 72), "returned", or  *)
(* "raised" with the error that ended it.  origins is a history buffer     *)
(* beside ids: the path and ordinal each buffered id was made from.        *)
(***************************************************************************)
\* The source flushes its buffers at 256 chunks; the model at BatchSize.
BatchSize == 2

CallStart(paths, files) ==
    [paths |-> paths, files |-> files, pi |-> 1, open |-> FALSE,
     chunks |-> <<>>, ci |-> 0,
     docs |-> <<>>, metas |-> <<>>, ids |-> <<>>, origins |-> <<>>,
     pc |-> "loop", error |-> "none"]

NextPath(st) ==
    [st EXCEPT !.pi = st.pi + 1, !.open = FALSE, !.chunks = <<>>, !.ci = 0]

\* Every path taken for a file to read.
SupportedAny(path) == TRUE

\* Lines 55-61: the content of the file by its extension; files of any
\* other extension are passed over.
Supported(path) == IsPdf(path) \/ IsText(path)

Content(path, file) ==
    IF IsPdf(path) THEN read_pdf(file) ELSE read_text_file(file)

\* Lines 64-66: one chunk goes into the three buffers.
AppendChunk(st, path, i, ch) ==
    [st EXCEPT !.docs  = Append(st.docs, ch),
               !.metas = Append(st.metas, Meta(path)),
               !.ids   = Append(st.ids, ChunkId(path, i)),
               !.origins = Append(st.origins, [path |-> path, n |-> i]),
               !.ci    = i + 1]

RECURSIVE Advance(_)
\* The loops of lines 54-70, run from where st stands up to the next call
\* of _add_batch, the end of the paths, or a read that raises.
Advance(st) ==
    IF st.pi > Len(st.paths)
    THEN [st EXCEPT !.pc = IF st.docs # <<>> THEN "final" ELSE "returned"]
    ELSE LET path == st.paths[st.pi]
             file == st.files[st.pi]
         IN  IF ~st.open
             THEN IF ~Supported(path) THEN Advance(NextPath(st))
                  ELSE IF ~file.readable
                  THEN [st EXCEPT !.pc = "raised", !.error = "read"]
                  ELSE Advance([st EXCEPT
                           !.open = TRUE,
                           !.chunks = chunk_text(Content(path, file),
                                                 MAX_CHARS, OVERLAP)])
             ELSE IF st.ci >= Len(st.chunks) THEN Advance(NextPath(st))
             ELSE LET st1 == AppendChunk(st, path, st.ci, st.chunks[st.ci + 1])
                  IN  IF Len(st1.docs) >= BatchSize
                      THEN [st1 EXCEPT !.pc = "flush"]
                      ELSE Advance(st1)

\* _add_batch on a collection whose add also rejects an id it already holds.
add_batch_rejecting_known(st, coll, env) ==
    IF env = "embed"
    THEN [st |-> [st EXCEPT !.pc = "raised", !.error = "embed"], coll |-> coll]
    ELSE IF env = "store"
    THEN [st |-> [st EXCEPT !.pc = "raised", !.error = "store"], coll |-> coll]
    ELSE IF HasDuplicates(st.ids) \/ Range(st.ids) \cap DOMAIN coll # {}
    THEN [st |-> [st EXCEPT !.pc = "raised", !.error = "duplicate_id"], coll |-> coll]
    ELSE [st   |-> [st EXCEPT !.docs = <<>>, !.metas = <<>>, !.ids = <<>>,
                              !.origins = <<>>,
                              !.pc = IF st.pc = "flush" THEN "loop" ELSE "returned"],
          coll |-> CollectionAdd(coll, st.ids, embed(st.docs), st.docs, st.metas)]

\* Retriever._add_batch(ids, docs, metas) at a call standing at "flush" or
\* "final".  env is what the two services do with this call: "ok", "embed"
\* (the embedding model raises) or "store" (the collection raises).
\* collection.add itself rejects a batch that names an id twice.
add_batch(st, coll, env) ==
    IF env = "embed"
    THEN [st |-> [st EXCEPT !.pc = "raised", !.error = "embed"], coll |-> coll]
    ELSE IF env = "store"
    THEN [st |-> [st EXCEPT !.pc = "raised", !.error = "store"], coll |-> coll]
    ELSE IF HasDuplicates(st.ids)
    THEN [st |-> [st EXCEPT !.pc = "raised", !.error = "duplicate_id"], coll |-> coll]
    ELSE [st   |-> [st EXCEPT !.docs = <<>>, !.metas = <<>>, !.ids = <<>>,
                              !.origins = <<>>,
                              !.pc = IF st.pc = "flush" THEN "loop" ELSE "returned"],
          coll |-> CollectionAdd(coll, st.ids, embed(st.docs), st.docs, st.metas)]

RECURSIVE RunCall(_, _, _, _)
\* A whole call of Retriever.ingest from local state st on collection coll,
\* with the services behaving as env throughout: the final local state, the
\* collection, and the batches handed to collection.add, in order (the ids
\* of each with their origins).
RunCall(st, coll, env, batches) ==
    IF st.pc = "loop" THEN RunCall(Advance(st), coll, env, batches)
    ELSE IF st.pc \in {"flush", "final"}
    THEN LET r == add_batch(st, coll, env)
         IN  RunCall(r.st, r.coll, env,
                     IF env = "embed" THEN batches
                     ELSE Append(batches, [ids |-> st.ids, origins |-> st.origins]))
    ELSE [st |-> st, coll |-> coll, batches |-> batches]

\* Retriever.ingest(paths)
ingest(paths, files, coll, env) ==
    RunCall(CallStart(paths, files), coll, env, <<>>)

(***************************************************************************)
(* Retriever.search.  The collection's answer to a query is a record of    *)
(* the documents and metadatas of the neighbours it found and of their     *)
(* distances; dist tells whether the answer has a list under "distances",  *)
(* no such key ("absent") or None under it ("null").  A distance is        *)
(* a whole number of Scale-ths, or None.                                   *)
(***************************************************************************)
\* Distances and scores are counted in units of 1/Scale.
Scale == 2

Some(v) == [some |-> TRUE, v |-> v]

None == [some |-> FALSE, v |-> 0]

Min(a, b) == IF a < b THEN a ELSE b

\* A score that repeats the distance instead of turning it round.
ScoreAsDistance(dist) == IF dist.some THEN Some(dist.v) ELSE None

\* Line 93: (1.0 - dist) if dist is not None else None
Score(dist) == IF dist.some THEN Some(Scale - dist.v) ELSE None

\* Lines 83-85: res.get(key, [[]])[0] for the three keys.
ResDocuments(res) == res.documents

ResMetadatas(res) == res.metadatas

ResDistances(res) == IF res.dist = "absent" THEN <<>> ELSE res.distances

\* Lines 86-97: one DocChunk for each triple zip yields, which stops at the
\* shortest of the three lists.
Results(docs, metas, dists) ==
    [i \in 1..Min(Len(docs), Min(Len(metas), Len(dists))) |->
        [text |-> docs[i], source |-> metas[i].source, score |-> Score(dists[i])]]

\* Retriever.search(query, k) when the collection answers the query with
\* res: what is returned, whether the call raised, the texts handed to
\* _embed and whether the collection was queried.
search(query, k, res) ==
    IF IsBlank(query)
    THEN [out |-> <<>>, raised |-> FALSE, embedded |-> <<>>, queried |-> FALSE]
    ELSE IF res.dist = "null"
    THEN [out |-> <<>>, raised |-> TRUE, embedded |-> <<query>>, queried |-> TRUE]
    ELSE [out |-> Results(ResDocuments(res), ResMetadatas(res), ResDistances(res)),
          raised |-> FALSE, embedded |-> <<query>>, queried |-> TRUE]

(***************************************************************************)
(* scripts/ingest.py: the paths main collects from a folder.               *)
(***************************************************************************)
RECURSIVE SeqOf(_)
\* The members of a set in the order a directory listing happens to give.
SeqOf(S) ==
    IF S = {} THEN <<>>
    ELSE LET e == CHOOSE e \in S : TRUE IN <<e>> \o SeqOf(S \ {e})

\* glob.glob(os.path.join(root, "*." + ext)) over the files present.
Glob(present, root, ext) == SeqOf({p \in present : p.dir = root /\ p.ext = ext})

RECURSIVE WalkPaths(_, _)
\* Lines 17-22: for each directory os.walk yields, the four globs in order.
WalkPaths(present, roots) ==
    IF roots = <<>> THEN <<>>
    ELSE Glob(present, Head(roots), "pdf") \o Glob(present, Head(roots), "txt")
         \o Glob(present, Head(roots), "md") \o Glob(present, Head(roots), "markdown")
         \o WalkPaths(present, Tail(roots))

(***************************************************************************)
(* The inputs of the model.                                                *)
(***************************************************************************)
PathA1 == P("d1", "a", "txt")

PathA2 == P("d2", "a", "txt")

PathB == P("d1", "b", "pdf")

PathC == P("d1", "c", "bin")

Paths == {PathA1, PathA2, PathB, PathC}

\* The order in which os.walk yields the directories of the folder.
WalkRoots == <<"d1", "d2">>

\* The files a folder given to main may hold.
FolderPaths == {PathA1, PathA2, PathB}

TextFile(text) == [readable |-> TRUE, pages |-> <<text>>]

Unreadable == [readable |-> FALSE, pages |-> <<>>]

Empty == <<>>

Blank == <<WS(3)>>

One == <<W("x", 700)>>

Two == <<W("d", 700), WS(1), W("e", 700)>>

Three == <<W("a", 700), WS(1), W("b", 700), WS(2), W("c", 700)>>

Rewritten == <<W("f", 700), WS(1), W("g", 700), WS(1), W("h", 700)>>

PdfDoc == [readable |-> TRUE, pages |-> <<<<W("p", 700)>>, <<>>, <<W("q", 700)>>>>]

\* The states each file is taken through.
Files(path) ==
    CASE path = PathA1 -> {Unreadable, TextFile(Empty), TextFile(Blank),
                           TextFile(One), TextFile(Three)}
      [] path = PathA2 -> {TextFile(Two)}
      [] path = PathB  -> {PdfDoc}
      [] OTHER         -> {TextFile(One), Unreadable}

RECURSIVE FilesUpTo(_, _)
\* The files a call may find at its first i paths: a path given twice holds
\* the same file both times.
FilesUpTo(paths, i) ==
    IF i = 0 THEN {<<>>}
    ELSE UNION {{Append(fs, f) :
                   f \in {g \in Files(paths[i]) :
                             \A j \in 1..(i - 1) : paths[j] = paths[i] => fs[j] = g}} :
                fs \in FilesUpTo(paths, i - 1)}

FileChoices(paths) == FilesUpTo(paths, Len(paths))

\* The lists Retriever.ingest is called with besides those main collects:
\* an unsupported file alone and before another, and a path given twice.
DirectLists == {<<PathC>>, <<PathC, PathB>>, <<PathA1, PathA1>>}

\* What the embedding model and the collection do during a call: both work,
\* the embedding model raises, or the collection raises.
Envs == {"ok", "embed", "store"}

\* Calls of ingest in one run of the model.
MaxCalls == 2

(***************************************************************************)
(* app.py: the chats and messages tables and the functions over them.  A   *)
(* database is [chats, seq, messages]: chats maps the id of each row of    *)
(* the chats table to its user_email and title, seq is the last id the     *)
(* AUTOINCREMENT key gave out, and messages holds the rows of the messages *)
(* table in the order of their ids.  A title or a message content is       *)
(* [s, len]: the first len characters of the string named s.  The          *)
(* created_at columns are left out.                                        *)
(***************************************************************************)
\* Python's None where an email or a title is expected.
NoneValue == "None"

Str(name, n) == [s |-> name, len |-> n]

EmptyStr == Str("", 0)

NewChatTitle == Str("New chat", 8)

\* title[:60]
TitleCut == 60

Truncate(str) == IF str.len > TitleCut THEN [str EXCEPT !.len = TitleCut] ELSE str

\* str.strip(): a string of whitespace alone becomes the empty string.
Strip(str) == IF str.s = " " THEN EmptyStr ELSE str

\* Lines 77-140: the tables init_db creates.
EmptyDb ==
    [chats |-> [id \in {} |-> [user_email |-> NoneValue, title |-> EmptyStr]],
     seq |-> 0, messages |-> <<>>]

\* Lines 184-195.
create_chat(d, user_email, title_hint) ==
    LET chat_id == d.seq + 1
    IN  [db |-> [d EXCEPT
                   !.chats = [id \in DOMAIN d.chats \cup {chat_id} |->
                                IF id = chat_id
                                THEN [user_email |-> user_email,
                                      title |-> Truncate(title_hint)]
                                ELSE d.chats[id]],
                   !.seq = chat_id],
         chat_id |-> chat_id]

\* Lines 211-217.
get_chat_owner_email(d, chat_id) ==
    IF chat_id \in DOMAIN d.chats THEN d.chats[chat_id].user_email ELSE NoneValue

\* A chat row of any owner answers the ownership query.
AnyRow(d, chat_id, user_email) == chat_id \in DOMAIN d.chats

\* Lines 223 and 264: SELECT id FROM chats WHERE id=? AND user_email=?
OwnedRow(d, chat_id, user_email) ==
    /\ chat_id \in DOMAIN d.chats
    /\ d.chats[chat_id].user_email = user_email

\* Lines 219-230.
set_chat_title(d, chat_id, user_email, new_title) ==
    IF ~OwnedRow(d, chat_id, user_email) THEN d
    ELSE [d EXCEPT !.chats[chat_id].title = Truncate(new_title)]

\* Lines 232-240.
add_message(d, chat_id, role, content, msg_type) ==
    [d EXCEPT !.messages = Append(@, [chat_id |-> chat_id, role |-> role,
                                      content |-> content, msg_type |-> msg_type])]

\* Lines 242-258.
get_messages(d, chat_id, user_email) ==
    IF get_chat_owner_email(d, chat_id) # user_email THEN <<>>
    ELSE LET rows == SelectSeq(d.messages, LAMBDA m : m.chat_id = chat_id)
         IN  [i \in 1..Len(rows) |->
                [role |-> rows[i].role, content |-> rows[i].content,
                 msg_type |-> rows[i].msg_type]]

\* Lines 260-273.
delete_chat_row(d, chat_id, user_email) ==
    IF ~OwnedRow(d, chat_id, user_email) THEN [db |-> d, ok |-> FALSE]
    ELSE [db |-> [d EXCEPT
                    !.messages = SelectSeq(@, LAMBDA m : m.chat_id # chat_id),
                    !.chats = [id \in DOMAIN d.chats \ {chat_id} |-> d.chats[id]]],
          ok |-> TRUE]

\* Lines 377-393: the title the model's answer is made into.
generate_title_from_first_user_msg(result) ==
    IF result = EmptyStr THEN NewChatTitle ELSE Truncate(Strip(result))

\* call_model raised instead of answering.
ModelError == Str("error", 0)

\* A chat_id as a request carries it: none, a number, or text that is no
\* number.
NoChatId == [kind |-> "none", n |-> 0]

ChatIdOf(n) == [kind |-> "num", n |-> n]

BadChatId == [kind |-> "bad", n |-> 0]

\* The answer of a route.
Answer(status, chat_id, body) == [status |-> status, chat_id |-> chat_id, body |-> body]

\* Lines 503-512: POST /chats/delete; a request without chat_id is answered
\* with an error, and int() raises on one that is no number.
chats_delete(d, user_email, chat_id) ==
    IF chat_id.kind = "none" THEN [db |-> d, ok |-> FALSE, status |-> 200]
    ELSE IF chat_id.kind = "bad" THEN [db |-> d, ok |-> FALSE, status |-> 500]
    ELSE LET r == delete_chat_row(d, chat_id.n, user_email)
         IN  [db |-> r.db, ok |-> r.ok, status |-> 200]

\* Lines 600-621: the title of the chat after the auto-title step.
AutoTitle(d, chat_id, user_email, titled) ==
    LET current == IF chat_id \in DOMAIN d.chats THEN d.chats[chat_id].title
                   ELSE NewChatTitle
        firsts  == SelectSeq(d.messages,
                             LAMBDA m : m.chat_id = chat_id /\ m.role = "user"
                                        /\ m.msg_type = "text")
    IN  IF (current = EmptyStr \/ current = NewChatTitle) /\ firsts # <<>>
        THEN set_chat_title(d, chat_id, user_email,
                            generate_title_from_first_user_msg(titled))
        ELSE d

\* Lines 521-627: POST /chat by user_email with a chat_id, a message and
\* maybe an image; ai_text and titled are what the model answers to the
\* conversation and to the title prompt.
chat_endpoint(d, user_email, chat_id, message, image, ai_text, titled) ==
    IF chat_id.kind = "bad" THEN [db |-> d, answer |-> Answer(500, 0, "error")]
    ELSE
    LET made == IF chat_id.kind = "none" THEN create_chat(d, user_email, NewChatTitle)
                ELSE [db |-> d, chat_id |-> chat_id.n]
        id   == made.chat_id
        d1   == made.db
    IN  IF get_chat_owner_email(d1, id) # user_email
        THEN [db |-> d1, answer |-> Answer(403, id, "forbidden")]
        ELSE
        LET txt == Strip(message)
            d2  == IF txt # EmptyStr THEN add_message(d1, id, "user", txt, "text") ELSE d1
            d3  == IF image THEN add_message(d2, id, "user", Str("/uploads/f", 10), "image")
                   ELSE d2
            ai  == IF ai_text = EmptyStr THEN Str("Sorry", 38) ELSE ai_text
            d4  == add_message(d3, id, "assistant", ai, "text")
            d5  == AutoTitle(d4, id, user_email, titled)
        IN  IF ai_text = ModelError
            THEN [db |-> d3, answer |-> Answer(500, id, "error")]
            ELSE IF titled = ModelError /\ d5 # d4
            THEN [db |-> d4, answer |-> Answer(500, id, "error")]
            ELSE [db |-> d5, answer |-> Answer(200, id, "response")]

(***************************************************************************)
(* State.  collection is the persistent chromadb collection.  last and     *)
(* prev record the two most recent calls of Retriever.ingest: the paths,   *)
(* the files read at them, the batches handed to collection.add, how the   *)
(* call ended and at which path; last also keeps the collection the call   *)
(* started from.                                                           *)
(***************************************************************************)
VARIABLES collection, last, prev, calls, found, procs, adds, chunked, db, served

vars == <<collection, last, prev, calls, found, procs, adds, chunked, db, served>>

NoCall == [paths |-> <<>>, files |-> <<>>, batches |-> <<>>,
           pc |-> "none", error |-> "none", at |-> 0]

CallRecord(paths, files, r) ==
    [paths |-> paths, files |-> files, batches |-> r.batches,
     pc |-> r.st.pc, error |-> r.st.error, at |-> r.st.pi]

\* found: the last call of Retriever.search, its arguments and the
\* collection's answer beside what search made of them.
NoSearch ==
    [called |-> FALSE, query |-> <<>>, k |-> 0,
     res |-> [documents |-> <<>>, metadatas |-> <<>>, distances |-> <<>>,
              dist |-> "list"],
     ret |-> [out |-> <<>>, raised |-> FALSE, embedded |-> <<>>, queried |-> FALSE]]

\* served: the last request the chat application served: the function or
\* route, the caller's user_email, the chat it named (0: none), and what it
\* answered: a status, a truth value, message rows.
NoRequest ==
    [op |-> "none", user_email |-> NoneValue, chat_id |-> 0,
     status |-> 0, ok |-> FALSE, rows |-> <<>>]

Request(op, user_email, chat_id, status, ok, rows) ==
    [op |-> op, user_email |-> user_email, chat_id |-> chat_id,
     status |-> status, ok |-> ok, rows |-> rows]

\* chunked: the last call of _chunk_text, its arguments and what it returned.
NoChunking ==
    [called |-> FALSE, text |-> <<>>, max_chars |-> MAX_CHARS,
     overlap |-> OVERLAP, chunks |-> <<>>]

\* procs: the local state of each concurrent call of ingest; adds: the
\* callers of collection.add, in the order the collection served them.
Procs == {1, 2}

Idle == CallStart(<<>>, <<>>)

Init ==
    /\ collection = EmptyCollection
    /\ last = [call |-> NoCall, before |-> EmptyCollection]
    /\ prev = NoCall
    /\ calls = 0
    /\ found = NoSearch
    /\ procs = [p \in Procs |-> Idle]
    /\ adds = <<>>
    /\ chunked = NoChunking
    /\ db = EmptyDb
    /\ served = NoRequest

\* One call of Retriever.ingest(paths) that finds files at its paths.
Call(paths, files, env) ==
    LET r == ingest(paths, files, collection, env)
    IN  /\ collection' = r.coll
        /\ last' = [call |-> CallRecord(paths, files, r), before |-> collection]
        /\ prev' = last.call
        /\ calls' = calls + 1
        /\ UNCHANGED <<found, procs, adds, chunked, db, served>>

Ingest(paths, files, env) ==
    /\ calls < MaxCalls
    /\ Call(paths, files, env)

\* scripts/ingest.py main over a folder holding the files `present`.
Main(present, env) ==
    /\ calls < MaxCalls
    /\ LET paths == WalkPaths(present, WalkRoots)
       IN  IF paths = <<>> THEN UNCHANGED vars
           ELSE \E files \in FileChoices(paths) : Call(paths, files, env)

Next ==
    \/ \E paths \in DirectLists, env \in Envs :
          \E files \in FileChoices(paths) : Ingest(paths, files, env)
    \/ \E present \in SUBSET FolderPaths, env \in Envs : Main(present, env)

Spec == Init /\ [][Next]_vars

(***************************************************************************)
(* Searches.  The collection is one that ingest has filled; the answer of  *)
(* the collection to a query names at most k of its entries, nearest       *)
(* first.  search keeps no state, so a run makes one call of it.           *)
(***************************************************************************)
\* The largest k search is called with.
MaxK == 2

Queries == {<<>>, <<WS(2)>>, <<W("q", 5)>>, <<WS(1), W("q", 5), WS(1), W("r", 3)>>}

SearchStores ==
    {EmptyCollection,
     ingest(<<PathA1>>, <<TextFile(Three)>>, EmptyCollection, "ok").coll}

RECURSIVE Hits(_, _)
\* The sequences of n different members of S.
Hits(S, n) ==
    IF n = 0 THEN {<<>>}
    ELSE UNION {{Append(h, e) : e \in S \ Range(h)} : h \in Hits(S, n - 1)}

Distances == {None} \cup {Some(d) : d \in 0..(2 * Scale)}

\* Nearest first: the distances that are numbers never decrease.
Ascending(ds) ==
    \A i, j \in 1..Len(ds) : (i < j /\ ds[i].some /\ ds[j].some) => ds[i].v <= ds[j].v

\* The answers the collection may give to a query for k neighbours.
Responses(coll, k) ==
    UNION {
      UNION {
        {[documents |-> [i \in 1..n |-> coll[h[i]].document],
          metadatas |-> [i \in 1..n |-> coll[h[i]].metadata],
          distances |-> ds, dist |-> "list"] :
             ds \in {d \in [1..n -> Distances] : Ascending(d)}}
        \cup
        {[documents |-> [i \in 1..n |-> coll[h[i]].document],
          metadatas |-> [i \in 1..n |-> coll[h[i]].metadata],
          distances |-> <<>>, dist |-> shape] : shape \in {"absent", "null"}} :
        h \in Hits(DOMAIN coll, n)} :
      n \in 0..Min(k, Cardinality(DOMAIN coll))}

InitSearch ==
    /\ collection \in SearchStores
    /\ last = [call |-> NoCall, before |-> EmptyCollection]
    /\ prev = NoCall
    /\ calls = 0
    /\ found = NoSearch
    /\ procs = [p \in Procs |-> Idle]
    /\ adds = <<>>
    /\ chunked = NoChunking
    /\ db = EmptyDb
    /\ served = NoRequest

Search(query, k, res) ==
    /\ found' = [called |-> TRUE, query |-> query, k |-> k, res |-> res,
                 ret |-> search(query, k, res)]
    /\ UNCHANGED <<collection, last, prev, calls, procs, adds, chunked, db, served>>

NextSearch ==
    /\ ~found.called
    /\ \E query \in Queries, k \in 1..MaxK :
          \E res \in Responses(collection, k) : Search(query, k, res)

SpecSearch == InitSearch /\ [][NextSearch]_vars

(***************************************************************************)
(* Concurrent calls of ingest on one collection.  Each caller runs its own *)
(* call, with its own buffers; the collection serves one add at a time.    *)
(* A step of a caller is one _add_batch together with the local work up to *)
(* the next one.                                                           *)
(***************************************************************************)
ConcLists == {<<PathA1>>, <<PathA2>>, <<PathB>>}

\* The files a concurrent caller may find: d2/a.txt may have been rewritten.
ConcFiles(paths) ==
    FileChoices(paths) \cup
    (IF paths = <<PathA2>> THEN {<<TextFile(Rewritten)>>} ELSE {})

InitConc ==
    /\ collection = EmptyCollection
    /\ last = [call |-> NoCall, before |-> EmptyCollection]
    /\ prev = NoCall
    /\ calls = 0
    /\ found = NoSearch
    /\ procs = [p \in Procs |-> Idle]
    /\ adds = <<>>
    /\ chunked = NoChunking
    /\ db = EmptyDb
    /\ served = NoRequest

\* Caller p enters ingest(paths) and runs up to its first _add_batch.
Start(p, paths, files) ==
    /\ procs[p] = Idle
    /\ procs' = [procs EXCEPT ![p] = Advance(CallStart(paths, files))]
    /\ UNCHANGED <<collection, last, prev, calls, found, adds, chunked, db, served>>

\* Caller p's pending _add_batch, and its loops up to the next one.
AddStep(p, env) ==
    /\ procs[p].pc \in {"flush", "final"}
    /\ LET r == add_batch(procs[p], collection, env)
       IN  /\ collection' = r.coll
           /\ procs' = [procs EXCEPT
                          ![p] = IF r.st.pc = "loop" THEN Advance(r.st) ELSE r.st]
    /\ adds' = Append(adds, p)
    /\ UNCHANGED <<last, prev, calls, found, chunked, db, served>>

NextConc ==
    \/ \E p \in Procs, paths \in ConcLists :
          \E files \in ConcFiles(paths) : Start(p, paths, files)
    \/ \E p \in Procs, env \in Envs : AddStep(p, env)

SpecConc == InitConc /\ [][NextConc]_vars

(***************************************************************************)
(* The chunker on its own.  A run is one call of _chunk_text, on a text of *)
(* a few short words and with small sizes, so that a word can be longer    *)
(* than a chunk and the overlap as large as a chunk or larger.  The i-th   *)
(* word of a text is named by its position, so that equal tokens are the   *)
(* same word of the input.                                                 *)
(***************************************************************************)
\* The most words of a text.
MaxWords == 3

\* The largest max_chars.
MaxChunkChars == 6

\* The largest overlap.
MaxOverlap == 6

WordNames == <<"a", "b", "c", "d", "e">>

WordLens == {1, 2, 4}

\* Whitespace before the i-th word: none before the first word of some
\* texts, a run of two before the second, and one character otherwise.
Gap(i, lead) ==
    IF i = 1 THEN (IF lead THEN <<WS(1)>> ELSE <<>>)
    ELSE IF i = 2 THEN <<WS(2)>> ELSE <<WS(1)>>

RECURSIVE TextOf(_, _, _)
\* The text of the first n of the words whose lengths lens gives.
TextOf(lens, n, lead) ==
    IF n = 0 THEN <<>>
    ELSE TextOf(lens, n - 1, lead) \o Gap(n, lead) \o <<W(WordNames[n], lens[n])>>

Texts ==
    {<<>>, <<WS(2)>>} \cup
    UNION {{TextOf(lens, n, lead) : lens \in [1..n -> WordLens], lead \in BOOLEAN} :
             n \in 1..MaxWords}

InitChunk ==
    /\ collection = EmptyCollection
    /\ last = [call |-> NoCall, before |-> EmptyCollection]
    /\ prev = NoCall
    /\ calls = 0
    /\ found = NoSearch
    /\ procs = [p \in Procs |-> Idle]
    /\ adds = <<>>
    /\ db = EmptyDb
    /\ served = NoRequest
    /\ \E text \in Texts, max_chars \in 1..MaxChunkChars, overlap \in 0..MaxOverlap :
          chunked = [called |-> FALSE, text |-> text, max_chars |-> max_chars,
                     overlap |-> overlap, chunks |-> <<>>]

\* The call _chunk_text(text, max_chars, overlap).
Chunk ==
    /\ ~chunked.called
    /\ chunked' = [chunked EXCEPT
                     !.called = TRUE,
                     !.chunks = chunk_text(chunked.text, chunked.max_chars,
                                           chunked.overlap)]
    /\ UNCHANGED <<collection, last, prev, calls, found, procs, adds, db, served>>

NextChunk == Chunk

SpecChunk == InitChunk /\ [][NextChunk]_vars

(***************************************************************************)
(* The chat application: requests of a few users, one at a time, against   *)
(* one database.                                                           *)
(***************************************************************************)
\* The most chats ever created.
MaxChats == 1

\* The most rows of the messages table.
MaxMessages == 2

Users == {"u1", "u2"}

\* The chat ids a request may name: those of the chats there can be, created
\* or not yet.
ChatNumbers == 1..MaxChats

ChatIdArgs == {NoChatId, BadChatId} \cup {ChatIdOf(n) : n \in ChatNumbers}

MessageTexts == {Str(" ", 1), Str("hi", 2)}

TitleTexts == {Str("long", 80)}

\* What the model does in one request: its answer to the conversation and
\* its answer to the title prompt.
ModelRuns ==
    {[ai_text |-> Str("re", 2), titled |-> Str("long", 80)],
     [ai_text |-> EmptyStr,     titled |-> EmptyStr],
     [ai_text |-> Str("re", 2), titled |-> ModelError],
     [ai_text |-> ModelError,   titled |-> ModelError]}

\* What a POST /chat carries beside its chat_id, and what the model does
\* while it is served.
Payloads ==
    {[message |-> m, image |-> i, run |-> r] :
        m \in MessageTexts, i \in BOOLEAN, r \in ModelRuns}

\* The payloads to serve a request with: the handler answers a chat_id that
\* is no number or names a chat of another owner before it looks at the
\* rest of the request, so one payload stands for all of them there.
PayloadsFor(d, user_email, chat_id) ==
    IF \/ chat_id.kind = "bad"
       \/ chat_id.kind = "num" /\ get_chat_owner_email(d, chat_id.n) # user_email
    THEN {[message |-> Str("hi", 2), image |-> TRUE,
           run |-> [ai_text |-> Str("re", 2), titled |-> Str("long", 80)]]}
    ELSE Payloads

InitChat ==
    /\ collection = EmptyCollection
    /\ last = [call |-> NoCall, before |-> EmptyCollection]
    /\ prev = NoCall
    /\ calls = 0
    /\ found = NoSearch
    /\ procs = [p \in Procs |-> Idle]
    /\ adds = <<>>
    /\ chunked = NoChunking
    /\ db = EmptyDb
    /\ served = NoRequest

\* Lines 496-501: POST /chats/new.
NewChat(user_email) ==
    /\ db.seq < MaxChats
    /\ LET r == create_chat(db, user_email, NewChatTitle)
       IN  /\ db' = r.db
           /\ served' = Request("create_chat", user_email, r.chat_id, 200, TRUE, <<>>)
    /\ UNCHANGED <<collection, last, prev, calls, found, procs, adds, chunked>>

\* Lines 521-627: POST /chat.
ChatEndpoint(user_email, chat_id, message, image, ai_text, titled) ==
    /\ chat_id.kind = "none" => db.seq < MaxChats
    /\ LET r == chat_endpoint(db, user_email, chat_id, message, image, ai_text, titled)
       IN  /\ Len(r.db.messages) <= MaxMessages
           /\ db' = r.db
           /\ served' = Request("chat_endpoint", user_email, r.answer.chat_id,
                                r.answer.status, r.answer.status = 200, <<>>)
    /\ UNCHANGED <<collection, last, prev, calls, found, procs, adds, chunked>>

\* Lines 514-519: GET /messages.
GetMessages(user_email, chat_id) ==
    /\ served' = Request("get_messages", user_email, chat_id, 200, TRUE,
                         get_messages(db, chat_id, user_email))
    /\ UNCHANGED <<collection, last, prev, calls, found, procs, adds, chunked, db>>

\* A call of set_chat_title.
SetChatTitle(user_email, chat_id, new_title) ==
    /\ db' = set_chat_title(db, chat_id, user_email, new_title)
    /\ served' = Request("set_chat_title", user_email, chat_id, 200, TRUE, <<>>)
    /\ UNCHANGED <<collection, last, prev, calls, found, procs, adds, chunked>>

\* Lines 503-512: POST /chats/delete with a chat_id in its body.
ChatsDelete(user_email, chat_id) ==
    /\ LET r == chats_delete(db, user_email, chat_id)
       IN  /\ db' = r.db
           /\ served' = Request("delete_chat_row", user_email, chat_id.n, r.status,
                                r.ok, <<>>)
    /\ UNCHANGED <<collection, last, prev, calls, found, procs, adds, chunked>>

NextChat ==
    \/ \E u \in Users : NewChat(u)
    \/ \E u \in Users, chat_id \in ChatIdArgs :
          \E p \in PayloadsFor(db, u, chat_id) :
              ChatEndpoint(u, chat_id, p.message, p.image, p.run.ai_text, p.run.titled)
    \/ \E u \in Users, n \in ChatNumbers : GetMessages(u, n)
    \/ \E u \in Users, n \in ChatNumbers, t \in TitleTexts :
          SetChatTitle(u, n, t)
    \/ \E u \in Users, chat_id \in ChatIdArgs : ChatsDelete(u, chat_id)

SpecChat == InitChat /\ [][NextChat]_vars

(***************************************************************************)
(* What the claims speak of.                                               *)
(***************************************************************************)
\* The ids the collection holds under a source.
StoredUnder(coll, name) == {id \in DOMAIN coll : coll[id].metadata.source = name}

\* The chunks ingest makes of a file.
ChunksOf(path, file) == chunk_text(Content(path, file), MAX_CHARS, OVERLAP)

\* Every (id, origin) a call handed to collection.add.
Submitted(call) ==
    UNION {{[id |-> b.ids[k], origin |-> b.origins[k]] : k \in 1..Len(b.ids)} :
           b \in Range(call.batches)}

\* The number of ids a call handed to collection.add.
RECURSIVE SubmittedCount(_)
SubmittedCount(batches) ==
    IF batches = <<>> THEN 0
    ELSE Len(Head(batches).ids) + SubmittedCount(Tail(batches))

Returned(call) == call.pc = "returned"

\* A text without a single word: empty, or whitespace alone.
NoWords(text) == \A i \in 1..Len(text) : text[i].w = " "

\* The extensions ingest looks for.
KnownExt(path) == path.ext \in {"pdf", "txt", "md", "markdown", "PDF", "TXT", "MD"}

\* The embedding model and the collection worked throughout the call.
ServicesWorked(call) == call.error \notin {"embed", "store"}

\* A call of ingest on one supported file, followed by a call on the same
\* path that finds other content there; both return.
ReingestedChanged ==
    /\ Returned(prev) /\ Returned(last.call)
    /\ Len(prev.paths) = 1 /\ last.call.paths = prev.paths
    /\ Supported(prev.paths[1])
    /\ last.call.files[1] # prev.files[1]

\* C1: after a file is ingested and then ingested again under the same
\* filename with different content, the collection holds under that source
\* exactly the chunks of the second content: as many, and with those texts.
C1_ReingestReplaces ==
    ReingestedChanged =>
        LET path   == last.call.paths[1]
            chunks == ChunksOf(path, last.call.files[1])
            stored == StoredUnder(collection, basename(path))
        IN  /\ Cardinality(stored) = Len(chunks)
            /\ {collection[id].document : id \in stored} = Range(chunks)

\* The files of a call other than the one it was at when it failed.
OtherFiles(call) ==
    {i \in 1..Len(call.paths) :
        /\ i # call.at
        /\ Supported(call.paths[i])
        /\ call.files[i].readable}

AllChunksStored(coll, path, file) ==
    \A n \in 0..(Len(ChunksOf(path, file)) - 1) : ChunkId(path, n) \in DOMAIN coll

\* C2: when the processing of one file of a batch fails (its read, the
\* embedding call or collection.add raises), ingest does not raise to its
\* caller and every other readable file of the batch, before or after the
\* failing one, has all its chunks in the collection.
C2_FailureIsolated ==
    last.call.error \in {"read", "embed", "store"} =>
        /\ last.call.pc # "raised"
        /\ \A i \in OtherFiles(last.call) :
              AllChunksStored(collection, last.call.paths[i], last.call.files[i])

\* C3: over all calls, no two chunks of different source files or of
\* different ordinals are handed to the collection under one id.
C3_IdsUnique ==
    \A x, y \in Submitted(prev) \cup Submitted(last.call) :
        x.id = y.id => x.origin = y.origin

\* A call of ingest that returned, followed by a call with the same paths
\* that finds the same files, the services working.
ReingestedSame ==
    /\ Returned(prev)
    /\ prev.paths # <<>>
    /\ last.call.paths = prev.paths
    /\ last.call.files = prev.files
    /\ ServicesWorked(last.call)

\* C5: ingesting the same files with the same content again returns
\* without error, hands the collection the same ids in the same order, and
\* leaves the collection as the first ingestion left it.
C5_ReingestIdempotent ==
    ReingestedSame =>
        /\ Returned(last.call)
        /\ [k \in 1..Len(last.call.batches) |-> last.call.batches[k].ids]
             = [k \in 1..Len(prev.batches) |-> prev.batches[k].ids]
        /\ collection = last.before

\* C5 witness: a file of three chunks, more than one batch, ingested twice.
C5_Witness ==
    /\ ReingestedSame
    /\ Returned(last.call)
    /\ Len(last.call.batches) >= 2
    /\ DOMAIN collection # {}

\* No path is given twice to the call.
DistinctPaths(call) ==
    \A i, j \in 1..Len(call.paths) : call.paths[i] = call.paths[j] => i = j

\* C6: after ingest returns for a list of files, every chunk of every file
\* lies in the collection under that file's id for its ordinal, with the
\* chunk's text, the embedding of that text and the file's name as source;
\* and each chunk was handed to the collection once, under an id of its own.
C6_StoredAsChunked ==
    (Returned(last.call) /\ DistinctPaths(last.call)) =>
        /\ \A i \in 1..Len(last.call.paths) :
              LET path   == last.call.paths[i]
                  chunks == ChunksOf(path, last.call.files[i])
              IN  Supported(path) =>
                    \A n \in 0..(Len(chunks) - 1) :
                        LET id == ChunkId(path, n)
                        IN  /\ id \in DOMAIN collection
                            /\ collection[id].document = chunks[n + 1]
                            /\ collection[id].embedding = Emb(chunks[n + 1])
                            /\ collection[id].metadata.source = basename(path)
        /\ Cardinality(Submitted(last.call)) = SubmittedCount(last.call.batches)

\* The positions of a call that hold a readable file of no words, whose
\* filename no other path of the call bears.
BlankFiles(call) ==
    {i \in 1..Len(call.paths) :
        /\ Supported(call.paths[i])
        /\ call.files[i].readable
        /\ NoWords(Content(call.paths[i], call.files[i]))
        /\ \A j \in 1..Len(call.paths) :
              basename(call.paths[j]) = basename(call.paths[i]) => j = i}

\* C7: a file whose text is empty or all whitespace adds no chunk, leaves no
\* entry of the collection with its filename as source, and is no error: the
\* call goes on past it.
C7_BlankFileLeavesNothing ==
    \A i \in BlankFiles(last.call) :
        LET path == last.call.paths[i]
        IN  /\ \A x \in Submitted(last.call) : x.origin.path # path
            /\ StoredUnder(collection, basename(path)) = {}
            /\ ~(last.call.pc = "raised" /\ last.call.at = i)

\* The positions of a call whose path has none of the extensions ingest
\* looks for.
UnknownFiles(call) == {i \in 1..Len(call.paths) : ~KnownExt(call.paths[i])}

\* C8 as claimed: a readable file of an unknown extension is read as plain
\* text and its chunks are in the collection once ingest has returned.
C8_UnknownReadAsText ==
    Returned(last.call) =>
        \A i \in UnknownFiles(last.call) :
            last.call.files[i].readable =>
                /\ ChunksOf(last.call.paths[i], last.call.files[i]) # <<>>
                /\ AllChunksStored(collection, last.call.paths[i], last.call.files[i])

\* C8 as amended: a file of an unknown extension is passed over.  It is not
\* read (the call never fails at it, readable or not), none of its text is
\* handed to the collection or stored under its name, and the call goes on
\* with the paths after it.
C8_UnknownSkipped ==
    \A i \in UnknownFiles(last.call) :
        LET path == last.call.paths[i]
        IN  /\ \A x \in Submitted(last.call) : x.origin.path # path
            /\ StoredUnder(collection, basename(path)) = {}
            /\ last.call.at # i

\* C8 witness: an unknown file that cannot even be read, ahead of a pdf
\* whose chunks the call stores.
C8_Witness ==
    /\ last.call.paths = <<PathC, PathB>>
    /\ ~last.call.files[1].readable
    /\ Returned(last.call)
    /\ AllChunksStored(collection, PathB, last.call.files[2])
    /\ StoredUnder(collection, basename(PathB)) # {}

\* Both concurrent calls have ended, each was given one readable file, the
\* two filenames differ, and the embedding model and the collection worked.
ConcurrentDifferent ==
    /\ \A p \in Procs :
          /\ procs[p].pc \in {"returned", "raised"}
          /\ Len(procs[p].paths) = 1
          /\ procs[p].files[1].readable
          /\ ServicesWorked(procs[p])
    /\ basename(procs[1].paths[1]) # basename(procs[2].paths[1])

\* The collection holds under the filename of path exactly the chunks of
\* file: their ids, texts, embeddings and source.
HoldsExactly(coll, path, file) ==
    LET chunks == ChunksOf(path, file)
    IN  /\ StoredUnder(coll, basename(path))
             = {ChunkId(path, n) : n \in 0..(Len(chunks) - 1)}
        /\ \A n \in 0..(Len(chunks) - 1) :
              /\ ChunkId(path, n) \in DOMAIN coll
              /\ coll[ChunkId(path, n)].document = chunks[n + 1]
              /\ coll[ChunkId(path, n)].embedding = Emb(chunks[n + 1])
              /\ coll[ChunkId(path, n)].metadata = Meta(path)

C9_BlankQueryShortCircuits ==
    (found.called /\ NoWords(found.query)) =>
        /\ found.ret.out = <<>>
        /\ ~found.ret.raised
        /\ found.ret.embedded = <<>>
        /\ ~found.ret.queried

\* C9 witness: a query of whitespace alone, on a collection that has
\* neighbours to offer.
C9_Witness ==
    /\ found.called
    /\ found.query # <<>>
    /\ NoWords(found.query)
    /\ found.res.documents # <<>>

\* C10: for every result the collection returns to search, the output has
\* an entry in the same position, with that text and source, and with score
\* 1 - d where the collection gives the distance d and null where it gives
\* none, be it one distance that is None or an answer without distances; no
\* result is dropped.
C10_EveryResultScored ==
    (found.called /\ ~NoWords(found.query)) =>
        \A i \in 1..Len(found.res.documents) :
            /\ ~found.ret.raised
            /\ Len(found.ret.out) >= i
            /\ found.ret.out[i].text = found.res.documents[i]
            /\ found.ret.out[i].source = found.res.metadatas[i].source
            /\ found.ret.out[i].score =
                  IF found.res.dist = "list" /\ found.res.distances[i].some
                  THEN Some(Scale - found.res.distances[i].v)
                  ELSE None

\* The collection answered with a list holding a number for every result.
DistancesAvailable(res) ==
    /\ res.dist = "list"
    /\ \A i \in 1..Len(res.distances) : res.distances[i].some

\* C11: when the collection answers a search with a distance for every
\* result, nearest first, the scores of the returned list never increase
\* from one entry to the next, and the list has an entry for every result.
C11_ScoresNonIncreasing ==
    (found.called /\ ~NoWords(found.query) /\ DistancesAvailable(found.res)) =>
        /\ Len(found.ret.out) = Len(found.res.documents)
        /\ \A i, j \in 1..Len(found.ret.out) :
              i < j => /\ found.ret.out[i].score.some
                       /\ found.ret.out[j].score.some
                       /\ found.ret.out[i].score.v >= found.ret.out[j].score.v

\* C11 witness: a search answered with two results at different distances.
C11_Witness ==
    /\ found.called
    /\ DistancesAvailable(found.res)
    /\ Len(found.ret.out) = 2
    /\ found.res.distances[1].v < found.res.distances[2].v
    /\ found.ret.out[1].score.v > found.ret.out[2].score.v

\* C12: every chunk _chunk_text returns holds at least one character and at
\* most max_chars characters, whatever the text, max_chars and overlap.
C12_ChunksWithinMax ==
    chunked.called =>
        \A k \in 1..Len(chunked.chunks) :
            /\ JoinedLen(chunked.chunks[k]) >= 1
            /\ JoinedLen(chunked.chunks[k]) <= chunked.max_chars

\* The first n words of chunk k are whole words that end chunk k - 1.
CarriedOver(chunks, k, n) ==
    /\ n <= Len(chunks[k])
    /\ n <= Len(chunks[k - 1])
    /\ SubSeq(chunks[k], 1, n) =
          SubSeq(chunks[k - 1], Len(chunks[k - 1]) - n + 1, Len(chunks[k - 1]))

RECURSIVE Concatenation(_, _, _)
\* The first k chunks in order, each without its first ns[k] words.
Concatenation(chunks, ns, k) ==
    IF k = 0 THEN <<>>
    ELSE Concatenation(chunks, ns, k - 1) \o
         SubSeq(chunks[k], ns[k] + 1, Len(chunks[k]))

\* C13: for a non-empty text and an overlap smaller than max_chars, every
\* later chunk _chunk_text returns starts with some whole words that end the
\* chunk before it, and the chunks without those words, put together in
\* order, are the words of the text: each once, whole and in order.
C13_ChunksReconstructText ==
    (chunked.called /\ chunked.text # <<>> /\ chunked.overlap < chunked.max_chars) =>
        \E ns \in [1..Len(chunked.chunks) -> 0..Len(Split(chunked.text))] :
            /\ \A k \in 1..Len(chunked.chunks) :
                  IF k = 1 THEN ns[k] = 0
                  ELSE CarriedOver(chunked.chunks, k, ns[k])
            /\ Concatenation(chunked.chunks, ns, Len(chunked.chunks)) =
                  Split(chunked.text)

\* The positions in the text's words of the word a chunk ends with.
EndsAt(chunk, words) ==
    IF chunk = <<>> THEN {} ELSE {i \in 1..Len(words) : words[i] = Last(chunk)}

\* C14: _chunk_text returns for every text, max_chars and overlap, an
\* overlap of max_chars or more included; every chunk ends with a word of
\* the text that comes after the word the chunk before it ends with, so the
\* chunks are no more than the words of the text.
C14_ChunkerProgresses ==
    chunked.called =>
        LET words  == Split(chunked.text)
            chunks == chunked.chunks
        IN  /\ Len(chunks) <= Len(words)
            /\ \A k \in 1..Len(chunks) : EndsAt(chunks[k], words) # {}
            /\ \A k \in 2..Len(chunks) :
                  \A i \in EndsAt(chunks[k - 1], words), j \in EndsAt(chunks[k], words) :
                      i < j

\* C14 witness: a call with an overlap no smaller than max_chars that
\* returned as many chunks as the text has words, and more than one.
C14_Witness ==
    /\ chunked.called
    /\ chunked.overlap >= chunked.max_chars
    /\ Len(chunked.chunks) >= 2
    /\ Len(chunked.chunks) = Len(Split(chunked.text))

\* The chunks of the one file caller p ingests.
ChunksBy(p) == ChunksOf(procs[p].paths[1], procs[p].files[1])

\* Both callers ingested one readable file under the same filename, with
\* contents that chunk differently, and both returned.
ConcurrentSame ==
    /\ \A p \in Procs :
          /\ procs[p].pc = "returned"
          /\ Len(procs[p].paths) = 1
          /\ procs[p].files[1].readable
    /\ basename(procs[1].paths[1]) = basename(procs[2].paths[1])
    /\ ChunksBy(1) # ChunksBy(2)

\* The place in adds of the add by which caller p handed over its chunk n:
\* its (n \div BatchSize + 1)-th add.
AddOf(p, n) ==
    CHOOSE i \in 1..Len(adds) :
        /\ adds[i] = p
        /\ Cardinality({j \in 1..i : adds[j] = p}) = (n \div BatchSize) + 1

\* Caller p handed chunk n to the collection before the other caller q
\* handed over a chunk n of its own, and q's content has no such chunk or
\* another one.
WonWithOwn(p, q, n) ==
    /\ n < Len(ChunksBy(p))
    /\ \/ n >= Len(ChunksBy(q))
       \/ /\ AddOf(p, n) < AddOf(q, n)
          /\ ChunksBy(p)[n + 1] # ChunksBy(q)[n + 1]

\* Each caller was first with a chunk that the other's content lacks.
EachWonSome ==
    /\ \E n \in 0..(Len(ChunksBy(1)) - 1) : WonWithOwn(1, 2, n)
    /\ \E n \in 0..(Len(ChunksBy(2)) - 1) : WonWithOwn(2, 1, n)

\* C15: two concurrent calls of ingest for one filename with different
\* contents are not atomic: when the collection serves their adds in an
\* order in which each caller is first with some chunk of its own, the
\* collection ends up holding under that filename neither the chunks of the
\* first content nor those of the second, but a mix of the two.
C15_SameFileRaceMixes ==
    (ConcurrentSame /\ EachWonSome) =>
        \A p \in Procs :
            ~HoldsExactly(collection, procs[p].paths[1], procs[p].files[1])

\* C15 witness: the second caller's two adds fall between the two adds of
\* the first, and the collection holds chunks of both contents.
C15_Witness ==
    /\ ConcurrentSame
    /\ EachWonSome
    /\ adds = <<1, 2, 2, 1>>
    /\ \A p \in Procs :
          \E id \in DOMAIN collection :
              /\ id.n < Len(ChunksBy(p))
              /\ collection[id].document = ChunksBy(p)[id.n + 1]
    /\ \A p \in Procs :
          ~HoldsExactly(collection, procs[p].paths[1], procs[p].files[1])

\* The rows of a database that belong to a chat: its row of the chats table
\* and its rows of the messages table.
RowsOfChat(d, chat_id) ==
    [chat |-> IF chat_id \in DOMAIN d.chats THEN <<d.chats[chat_id]>> ELSE <<>>,
     messages |-> SelectSeq(d.messages, LAMBDA m : m.chat_id = chat_id)]

\* The request r names a chat that exists in d and belongs to someone other
\* than the caller.
OnAnothersChat(r, d) ==
    /\ r.op \in {"chat_endpoint", "get_messages", "set_chat_title", "delete_chat_row"}
    /\ r.chat_id \in DOMAIN d.chats
    /\ d.chats[r.chat_id].user_email # r.user_email

\* A step that serves a request on a chat another user owns leaves both
\* tables as they were and answers with nothing, 403 or False.
RefusesOthers ==
    OnAnothersChat(served', db) =>
        /\ db' = db
        /\ served'.op = "get_messages" => served'.rows = <<>>
        /\ served'.op = "chat_endpoint" => served'.status = 403
        /\ served'.op = "delete_chat_row" => ~served'.ok

\* C16: whatever requests came before, a request made with a user_email on
\* a chat that another user owns leaves the chat's row, title and messages
\* as they were: get_messages returns no message, chat_endpoint answers 403
\* before any add_message, set_chat_title changes nothing and
\* delete_chat_row returns False, with both tables unchanged.
C16_ChatOwnershipIsolation == [][RefusesOthers]_vars

\* C16 witness: a chat that holds messages and was given a title, on which
\* a user who does not own it has just been refused by POST /chat.
C16_Witness ==
    /\ OnAnothersChat(served, db)
    /\ served.op = "chat_endpoint"
    /\ served.status = 403
    /\ RowsOfChat(db, served.chat_id).messages # <<>>
    /\ db.chats[served.chat_id].title # NewChatTitle
====
